---------------------------- MODULE Spec2Model ----------------------------
(***************************************************************************)
(* lpcjobqueue/cluster.py: the life cycle of LPCCondorJob (start, close,   *)
(* the weakref finaliser _close_job) over the class-wide known_jobs set    *)
(* and an HTCondor schedd, and the constructors of LPCCondorJob and        *)
(* LPCCondorCluster.                                                       *)
(*                                                                         *)
(* The schedd (SCHEDD.transaction/queue/spool/query/act) and the dask      *)
(* scheduler_comm are collaborators outside the file: each call of one is  *)
(* modelled by the answers it can give, drawn with \E.  A python exception *)
(* that no handler of the file catches ends the coroutine that made the    *)
(* call; the parameter mayRaise of the actions says whether the            *)
(* collaborators may raise such exceptions.                                *)
(***************************************************************************)
EXTENDS Integers, Sequences, FiniteSets, TLC

(***************************************************************************)
(* Bounds and program constants.                                           *)
(***************************************************************************)
\* number of LPCCondorJob objects (workers) of the process; with three of
\* them and 30 polls each the state space is beyond TLC's reach
NumJobs == 1

\* range(30), the number of one-second polls of close()
MaxPolls == 30

Controllers == 1..NumJobs

\* one controller more, for the claims about controllers side by side
Several == 1..(NumJobs + 1)

\* cluster ids the schedd hands out: one per submission, starting at 1
ClusterIds == 1..NumJobs

\* python's None and a set job id, as sequences of length 0 and 1
None == << >>

Some(n) == << n >>

VARIABLES
    pc,          \* per controller: where its coroutine is suspended
    job_id,      \* self.job_id
    status,      \* self.status
    finished,    \* self._event_finished is set
    known_jobs,  \* LPCCondorJob.known_jobs
    finalizer,   \* the weakref.finalize of start(): "none", "alive", "dead"
    queue,       \* the cluster ids in the schedd's queue
    next_id,     \* the next cluster id the schedd assigns
    ret,         \* how the controller's last start() or close() ended
    submit,      \* how the schedd answered the controller's submission
    last_act,    \* the schedd's answer to the Remove of the current/last close()
    cluster,     \* self._cluster was set when the current/last close() began
    retires,     \* retire_workers requests of the current/last close()
    sleeps,      \* asyncio.sleep(1) calls of the current/last close()
    polls,       \* SCHEDD.query calls of the current/last close()
    removes,     \* SCHEDD.act(Remove) calls of the current/last close()
    fin_removes, \* SCHEDD.act(Remove) calls of the finaliser
    job_init,    \* one call of LPCCondorJob.__init__
    cluster_init \* one call of LPCCondorCluster.__init__

life_vars == << pc, job_id, status, finished, known_jobs, finalizer, queue,
                next_id, ret, submit, last_act, cluster, retires, sleeps,
                polls, removes, fin_removes >>

ctor_vars == << job_init, cluster_init >>

vars == << life_vars, ctor_vars >>

(***************************************************************************)
(* The pure pieces of the code.                                            *)
(***************************************************************************)
\* `if self.job_id:`  None and 0 are falsy
Truthy(j) == j # None /\ j # Some(0)

\* a sub() that hands back the cluster id after a caught error
sub_keeps_id(out, cluster_id) ==
    CASE out \in {"ok", "queue_internal_error", "spool_internal_error"} ->
           [exc |-> FALSE, value |-> Some(cluster_id)]
      [] OTHER -> [exc |-> TRUE, value |-> None]

\* What sub() returns for each way the submission can go; exc stands for an
\* exception other than HTCondorInternalError, which sub() does not catch.
sub(out, cluster_id) ==
    CASE out = "ok" -> [exc |-> FALSE, value |-> Some(cluster_id)]
      [] out = "queue_internal_error" -> [exc |-> FALSE, value |-> None]
      [] out = "spool_internal_error" -> [exc |-> FALSE, value |-> None]
      [] OTHER -> [exc |-> TRUE, value |-> None]

\* the submission was committed by the transaction (its `with` block ended)
Committed(out) == out \in {"ok", "spool_internal_error", "spool_error"}

SubOutcomes(mayRaise) ==
    {"ok", "queue_internal_error", "spool_internal_error"}
        \cup (IF mayRaise THEN {"queue_error", "spool_error"} ELSE {})

\* len(SCHEDD.query(f"ClusterId == {self.job_id}")): the schedd answers with
\* the job's records, one while the job is in the queue
QueryRows(j) == IF j # None /\ j[1] \in queue THEN 1 ELSE 0

\* an answer of the schedd: the rows, or an exception (exc)
QueryOutcomes(j, mayRaise) ==
    { [exc |-> FALSE, rows |-> QueryRows(j)] }
        \cup (IF mayRaise THEN { [exc |-> TRUE, rows |-> 0] } ELSE {})

\* a poll that takes a queued job for gone
check_gone_inverted(rows) == rows # 0

check_gone(rows) == rows = 0

\* a loop that ends one poll early
range_exhausted_early(n) == n = MaxPolls - 1

\* a loop that runs one poll too many
range_exhausted_late(n) == n = MaxPolls + 1

\* `for _ in range(30)` has run n times and ends
range_exhausted(n) == n = MaxPolls

\* The result ad of SCHEDD.act(Remove, ...): the counts are the schedd's; it
\* can report a success only for a job that is in its queue.
ActResults(id) ==
    { r \in [exc : {FALSE}, TotalSuccess : 0..1, TotalChangedAds : 0..1] :
        r.TotalSuccess = 1 => id \in queue }

ActOutcomes(id, mayRaise) ==
    ActResults(id)
        \cup (IF mayRaise
                THEN { [exc |-> TRUE, TotalSuccess |-> 0, TotalChangedAds |-> 0] }
                ELSE {})

\* no Remove was answered yet
NoAct == [exc |-> FALSE, TotalSuccess |-> -1, TotalChangedAds |-> -1]

\* the queue after a Remove action that answered res
QueueAfterAct(id, res) ==
    IF ~res.exc /\ res.TotalSuccess = 1 THEN queue \ {id} ELSE queue

\* a stop() that is content with either count
stop_either(res) == res.TotalSuccess = 1 \/ res.TotalChangedAds = 1

stop(res) == res.TotalSuccess = 1 /\ res.TotalChangedAds = 1

\* an assignment of a fresh set in place of the add
add_replaces(kj, j) == {j[1]}

\* self.known_jobs.add / discard
Add(kj, j) == kj \cup {j[1]}

\* a discard that is forgotten
discard_forgotten(kj, j) == kj

Discard(kj, j) == IF j = None THEN kj ELSE kj \ {j[1]}

\* a finaliser that removes the job and keeps the registry entry
close_job_keeps_entry(kj, id, res) == kj

\* _close_job's effect on known_jobs, given the answer to its Remove
close_job(kj, id, res) ==
    IF id \in kj /\ ~res.exc THEN Discard(kj, Some(id)) ELSE kj

(***************************************************************************)
(* Init: the controllers are constructed, nothing is submitted.            *)
(***************************************************************************)
LifeInitOf(S) ==
    /\ pc = [c \in S |-> "created"]
    /\ job_id = [c \in S |-> None]
    /\ status = [c \in S |-> "created"]
    /\ finished = [c \in S |-> FALSE]
    /\ known_jobs = {}
    /\ finalizer = [c \in S |-> "none"]
    /\ queue = {}
    /\ next_id = 1
    /\ ret = [c \in S |-> "none"]
    /\ submit = [c \in S |-> "none"]
    /\ last_act = [c \in S |-> NoAct]
    /\ cluster = [c \in S |-> FALSE]
    /\ retires = [c \in S |-> 0]
    /\ sleeps = [c \in S |-> 0]
    /\ polls = [c \in S |-> 0]
    /\ removes = [c \in S |-> 0]
    /\ fin_removes = [c \in S |-> 0]

LifeInit == LifeInitOf(Controllers)

(***************************************************************************)
(* start(): sub() runs in the executor, then the coroutine resumes.        *)
(***************************************************************************)
Start(c, mayRaise) ==
    /\ pc[c] = "created"
    /\ \E out \in SubOutcomes(mayRaise) :
         LET r == sub(out, next_id) IN
         /\ queue' = IF Committed(out) THEN queue \cup {next_id} ELSE queue
         /\ next_id' = IF Committed(out) THEN next_id + 1 ELSE next_id
         /\ pc' = [pc EXCEPT ![c] = "idle"]
         /\ submit' = [submit EXCEPT ![c] = out]
         /\ IF r.exc
              THEN /\ ret' = [ret EXCEPT ![c] = "start_raised"]
                   /\ UNCHANGED << job_id, known_jobs, finalizer, status >>
              ELSE /\ job_id' = [job_id EXCEPT ![c] = r.value]
                   /\ IF Truthy(r.value)
                        THEN /\ known_jobs' = Add(known_jobs, r.value)
                             /\ finalizer' = [finalizer EXCEPT ![c] = "alive"]
                             /\ status' = [status EXCEPT ![c] = "running"]
                             /\ ret' = [ret EXCEPT ![c] = "start_ok"]
                        ELSE /\ ret' = [ret EXCEPT ![c] = "start_none"]
                             /\ UNCHANGED << known_jobs, finalizer, status >>
    /\ UNCHANGED << finished, last_act, cluster, retires, sleeps, polls,
                    removes, fin_removes, ctor_vars >>

(***************************************************************************)
(* close().  The caller closes only a controller whose start() gave a job  *)
(* id; it may close it again after an earlier close() ended.               *)
(***************************************************************************)
CloseEnded == {"graceful", "forced", "failed", "close_raised"}

\* a close() that never asks the scheduler to retire the worker
first_await_skips_retire(live) == "loop"

\* `if self._cluster:` the first await of close()
first_await(live) == IF live THEN "retire" ELSE "loop"

\* close() up to its first await: the retire_workers request when the job
\* has a live cluster, else the first sleep
CloseBegin(c) ==
    /\ pc[c] = "idle"
    /\ ret[c] \in {"start_ok"} \cup CloseEnded
    /\ \E live \in BOOLEAN :
         /\ cluster' = [cluster EXCEPT ![c] = live]
         /\ pc' = [pc EXCEPT ![c] = first_await(live)]
         /\ retires' = [retires EXCEPT ![c] =
                          IF first_await(live) = "retire" THEN 1 ELSE 0]
    /\ ret' = [ret EXCEPT ![c] = "none"]
    /\ sleeps' = [sleeps EXCEPT ![c] = 0]
    /\ polls' = [polls EXCEPT ![c] = 0]
    /\ removes' = [removes EXCEPT ![c] = 0]
    /\ last_act' = [last_act EXCEPT ![c] = NoAct]
    /\ UNCHANGED << job_id, status, finished, known_jobs, finalizer, queue,
                    next_id, submit, fin_removes, ctor_vars >>

\* the retire_workers request answers
Retire(c, mayRaise) ==
    /\ pc[c] = "retire"
    /\ \E out \in {"ok"} \cup (IF mayRaise THEN {"raise"} ELSE {}) :
         IF out = "raise"
           THEN /\ pc' = [pc EXCEPT ![c] = "idle"]
                /\ ret' = [ret EXCEPT ![c] = "close_raised"]
           ELSE /\ pc' = [pc EXCEPT ![c] = "loop"]
                /\ UNCHANGED ret
    /\ UNCHANGED << job_id, status, finished, known_jobs, finalizer, queue,
                    next_id, submit, last_act, cluster, retires, sleeps,
                    polls, removes, fin_removes, ctor_vars >>

\* the cleanup both successful paths of close() share
Confirmed(c, how) ==
    /\ known_jobs' = Discard(known_jobs, job_id[c])
    /\ status' = [status EXCEPT ![c] = "closed"]
    /\ finished' = [finished EXCEPT ![c] = TRUE]
    /\ pc' = [pc EXCEPT ![c] = "idle"]
    /\ ret' = [ret EXCEPT ![c] = how]

\* One turn of `for _ in range(30)`: the sleep, then check_gone in the
\* executor.  The sleep touches no state, so the two awaits are one step.
Iterate(c, mayRaise) ==
    /\ pc[c] = "loop"
    /\ sleeps' = [sleeps EXCEPT ![c] = @ + 1]
    /\ polls' = [polls EXCEPT ![c] = @ + 1]
    /\ \E q \in QueryOutcomes(job_id[c], mayRaise) :
         CASE q.exc ->
                /\ pc' = [pc EXCEPT ![c] = "idle"]
                /\ ret' = [ret EXCEPT ![c] = "close_raised"]
                /\ UNCHANGED << known_jobs, status, finished >>
           [] ~q.exc /\ check_gone(q.rows) ->
                Confirmed(c, "graceful")
           [] OTHER ->
                /\ pc' = [pc EXCEPT ![c] =
                            IF range_exhausted(polls[c] + 1) THEN "stop" ELSE "loop"]
                /\ UNCHANGED << ret, known_jobs, status, finished >>
    /\ UNCHANGED << job_id, finalizer, queue, next_id, submit, last_act,
                    cluster, retires, removes, fin_removes, ctor_vars >>

\* after the loop: stop() in the executor, then the coroutine resumes
Stop(c, mayRaise) ==
    /\ pc[c] = "stop"
    /\ removes' = [removes EXCEPT ![c] = @ + 1]
    /\ \E res \in ActOutcomes(job_id[c][1], mayRaise) :
         /\ queue' = QueueAfterAct(job_id[c][1], res)
         /\ last_act' = [last_act EXCEPT ![c] = res]
         /\ CASE res.exc ->
                   /\ pc' = [pc EXCEPT ![c] = "idle"]
                   /\ ret' = [ret EXCEPT ![c] = "close_raised"]
                   /\ UNCHANGED << known_jobs, status, finished >>
              [] ~res.exc /\ stop(res) ->
                   Confirmed(c, "forced")
              [] OTHER ->
                   /\ pc' = [pc EXCEPT ![c] = "idle"]
                   /\ ret' = [ret EXCEPT ![c] = "failed"]
                   /\ UNCHANGED << known_jobs, status, finished >>
    /\ UNCHANGED << job_id, finalizer, next_id, submit, cluster, retires,
                    sleeps, polls, fin_removes, ctor_vars >>

(***************************************************************************)
(* The finaliser registered by start(): it runs once, when the controller  *)
(* is collected or the interpreter exits, which also ends a close() that   *)
(* is suspended at an await.                                               *)
(***************************************************************************)
Finalizer(c, mayRaise) ==
    /\ finalizer[c] = "alive"
    /\ pc[c] \in {"idle", "retire", "loop", "stop"}
    /\ pc' = [pc EXCEPT ![c] = "dead"]
    /\ ret' = [ret EXCEPT ![c] = "none"]
    /\ cluster' = [cluster EXCEPT ![c] = FALSE]
    /\ retires' = [retires EXCEPT ![c] = 0]
    /\ sleeps' = [sleeps EXCEPT ![c] = 0]
    /\ polls' = [polls EXCEPT ![c] = 0]
    /\ removes' = [removes EXCEPT ![c] = 0]
    /\ last_act' = [last_act EXCEPT ![c] = NoAct]
    /\ LET id == job_id[c][1] IN
       IF id \in known_jobs
         THEN /\ fin_removes' = [fin_removes EXCEPT ![c] = @ + 1]
              /\ \E res \in ActOutcomes(id, mayRaise) :
                   /\ queue' = QueueAfterAct(id, res)
                   /\ known_jobs' = close_job(known_jobs, id, res)
                   /\ finalizer' = [finalizer EXCEPT ![c] =
                                      IF res.exc THEN "raised" ELSE "dead"]
         ELSE /\ finalizer' = [finalizer EXCEPT ![c] = "dead"]
              /\ UNCHANGED << fin_removes, queue, known_jobs >>
    /\ UNCHANGED << job_id, status, finished, next_id, submit, ctor_vars >>

\* the batch system: a queued job ends (its worker retired, or it was removed)
JobExits(id) ==
    /\ id \in queue
    /\ queue' = queue \ {id}
    /\ UNCHANGED << pc, job_id, status, finished, known_jobs, finalizer,
                    next_id, ret, submit, last_act, cluster, retires, sleeps,
                    polls, removes, fin_removes, ctor_vars >>

(***************************************************************************)
(* LPCCondorJob.__init__: strings are sequences of characters.             *)
(***************************************************************************)
\* longest log_directory tried
MaxPathLen == 4

PathChars == {"/", "h", "t"}

Paths == UNION { [1..n -> PathChars] : n \in 0..MaxPathLen }

\* os.path.expanduser("~")
Homes == { << "/", "h" >> }

container_prefix == << "/cvmfs/unpacked.cern.ch/registry.hub.docker.com/" >>

Images == { << "coffeateam/coffea-dask:latest" >>, << "a", "/", "b", ":", "tag" >> }

\* the job_header_dict the base class built
BaseHeaders ==
    { [k \in K |-> << "base" >>] : K \in SUBSET {"RequestCpus", "initialdir"} }

\* str.startswith
startswith(s, prefix) ==
    Len(s) >= Len(prefix) /\ SubSeq(s, 1, Len(prefix)) = prefix

\* an assignment of the new entries in place of the update
dict_replaced(d, u) == u

\* dict.update
DictUpdate(d, u) ==
    [k \in DOMAIN d \cup DOMAIN u |-> IF k \in DOMAIN u THEN u[k] ELSE d[k]]

\* the entries __init__ puts into job_header_dict
HeaderEntries(homedir, image) ==
    [k \in {"initialdir", "use_x509userproxy", "when_to_transfer_output",
            "transfer_output_files", "+SingularityImage"} |->
        CASE k = "initialdir" -> homedir
          [] k = "use_x509userproxy" -> << "true" >>
          [] k = "when_to_transfer_output" -> << "ON_EXIT_OR_EVICT" >>
          [] k = "transfer_output_files" -> << >>
          [] OTHER -> << "\"" >> \o image \o << "\"" >>]

\* no constructor runs
CtorIdle ==
    /\ job_init = [homedir |-> << >>, log_directory |-> << >>, image |-> << >>,
                   header |-> << >>, result |-> "idle"]
    /\ cluster_init = [has_options |-> FALSE, options |-> << >>, port |-> 0,
                       passed |-> << >>, result |-> "idle"]

\* log_directory = << >> stands for None and for ""
JobInit ==
    /\ job_init.result = "pending"
    /\ LET image == container_prefix \o job_init.image
           homedir == job_init.homedir
       IN  IF job_init.log_directory # << >>
                /\ ~startswith(job_init.log_directory, homedir)
             THEN job_init' = [job_init EXCEPT !.result = "ValueError"]
             ELSE job_init' = [job_init EXCEPT
                                 !.header = DictUpdate(@, HeaderEntries(homedir, image)),
                                 !.result = "ok"]
    /\ UNCHANGED << life_vars, cluster_init >>

(***************************************************************************)
(* LPCCondorCluster.__init__                                               *)
(***************************************************************************)
\* random.randint(10000, 10100)
PortLo == 10000

PortHi == 10100

\* socket.gethostname()
Hostname == "lpc"

\* python values with their type, as far as hashing goes
PyDict(x) == [type |-> "dict", value |-> x]

Hashable(v) == v.type \notin {"dict", "list", "set"}

\* dict.setdefault(key): the key is hashed first; a missing key is set to None
setdefault(d, key) ==
    IF ~Hashable(key)
      THEN [exc |-> "TypeError", dict |-> d]
      ELSE [exc |-> "none",
            dict |-> IF key.value \in DOMAIN d THEN d
                     ELSE [k \in DOMAIN d \cup {key.value} |->
                             IF k \in DOMAIN d THEN d[k] ELSE << >>]]

\* the scheduler_options a caller may pass
CallerOptions ==
    { [k \in K |-> << "caller", ":", 8786 >>] :
        K \in SUBSET {"host", "dashboard_address"} }

ClusterInit ==
    /\ cluster_init.result = "pending"
    /\ \E port \in PortLo..PortHi, bind \in {"ok", "OSError"} :
         LET scheduler_options == [k \in {"host"} |-> << Hostname, ":", port >>]
             merged == setdefault(cluster_init.options, PyDict(scheduler_options))
         IN  IF cluster_init.has_options /\ merged.exc # "none"
               THEN cluster_init' = [cluster_init EXCEPT
                                       !.port = port, !.result = merged.exc]
               ELSE cluster_init' = [cluster_init EXCEPT
                                       !.port = port,
                                       !.passed = IF cluster_init.has_options
                                                    THEN merged.dict
                                                    ELSE scheduler_options,
                                       !.result = IF bind = "ok" THEN "ok"
                                                  ELSE "RuntimeError"]
    /\ UNCHANGED << life_vars, job_init >>

(***************************************************************************)
(* Specifications.                                                         *)
(***************************************************************************)
Init == LifeInit /\ CtorIdle

NextOf(mayRaise) ==
    \/ \E c \in DOMAIN pc :
         \/ Start(c, mayRaise)
         \/ CloseBegin(c)
         \/ Retire(c, mayRaise)
         \/ Iterate(c, mayRaise)
         \/ Stop(c, mayRaise)
         \/ Finalizer(c, mayRaise)
    \/ \E id \in queue : JobExits(id)

Next == NextOf(TRUE)

Spec == Init /\ [][Next]_vars

\* The collaborators' calls return; the event loop runs every coroutine that
\* can resume, and weakref.finalize runs the finaliser at collection or, at
\* the latest, at interpreter exit.
LiveNext == NextOf(FALSE)

Fairness ==
    \A c \in Controllers :
       /\ WF_vars(Retire(c, FALSE))
       /\ WF_vars(Iterate(c, FALSE))
       /\ WF_vars(Stop(c, FALSE))
       /\ WF_vars(Finalizer(c, FALSE))

LiveSpec == Init /\ [][LiveNext]_vars /\ Fairness

\* the same process with one controller more
SeveralInit == LifeInitOf(Several) /\ CtorIdle

SeveralSpec == SeveralInit /\ [][Next]_vars

\* one construction of a job, from every log_directory, image and header
JobInitInit ==
    /\ LifeInit
    /\ cluster_init = [has_options |-> FALSE, options |-> << >>, port |-> 0,
                       passed |-> << >>, result |-> "idle"]
    /\ job_init \in [homedir : Homes, log_directory : Paths, image : Images,
                     header : BaseHeaders, result : {"pending"}]

JobInitSpec == JobInitInit /\ [][JobInit]_vars

\* one construction of a cluster, with and without scheduler_options
ClusterInitInit ==
    /\ LifeInit
    /\ job_init = [homedir |-> << >>, log_directory |-> << >>, image |-> << >>,
                   header |-> << >>, result |-> "idle"]
    /\ \E has \in BOOLEAN :
       \E opts \in (IF has THEN CallerOptions ELSE { << >> }) :
          cluster_init = [has_options |-> has, options |-> opts, port |-> 0,
                          passed |-> << >>, result |-> "pending"]

ClusterInitSpec == ClusterInitInit /\ [][ClusterInit]_vars

(***************************************************************************)
(* The claims.                                                             *)
(***************************************************************************)

\* C1 as stated: after a successful start() the job id is in known_jobs, and
\* after close() returns, by the graceful or by the forced path, it is not.
C1_Original ==
    \A c \in Controllers :
       pc[c] = "idle" =>
          /\ ret[c] = "start_ok" =>
                job_id[c] # None /\ job_id[c][1] \in known_jobs
          /\ ret[c] \in {"graceful", "forced", "failed"} =>
                job_id[c] # None /\ job_id[c][1] \notin known_jobs

\* C1 as amended: after a successful start() the job id is in known_jobs, and
\* it is not after close() returns having confirmed the job's end (a poll
\* saw no rows, or the forced Remove reported one success and one changed ad).
C1_RegistryAfterStartAndClose ==
    \A c \in Controllers :
       pc[c] = "idle" =>
          /\ ret[c] = "start_ok" =>
                job_id[c] # None /\ job_id[c][1] \in known_jobs
          /\ ret[c] \in {"graceful", "forced"} =>
                job_id[c] # None /\ job_id[c][1] \notin known_jobs

C1_Witness ==
    \E c \in Controllers :
       pc[c] = "idle" /\ ret[c] = "forced" /\ job_id[c][1] \notin known_jobs

\* C2: the poll of close() that first finds no rows for the job (poll k,
\* 1 <= k <= 30) ends close() by the graceful path: status closed, id
\* discarded, finished event set, k polls made and no Remove issued.
C2_GracefulAfterKPolls ==
    [][ \A c \in Controllers :
          ( /\ pc[c] = "loop"
            /\ polls'[c] = polls[c] + 1
            /\ QueryRows(job_id[c]) = 0
            /\ ret'[c] # "close_raised" )
          => ( /\ pc'[c] = "idle"
               /\ ret'[c] = "graceful"
               /\ status'[c] = "closed"
               /\ finished'[c]
               /\ job_id[c][1] \notin known_jobs'
               /\ removes'[c] = 0
               /\ last_act'[c] = NoAct
               /\ polls'[c] \in 1..MaxPolls ) ]_vars

C2_Witness ==
    \E c \in Controllers :
       /\ pc[c] = "idle" /\ ret[c] = "graceful"
       /\ polls[c] = MaxPolls /\ removes[c] = 0
       /\ status[c] = "closed" /\ finished[c]

\* C3: a close() whose polls all find the job makes exactly 30 polls and then
\* issues one Remove: no Remove before the 30th poll, none after the first.
C3_ThirtyPollsThenOneRemove ==
    \A c \in Controllers :
       /\ pc[c] = "loop" => polls[c] < MaxPolls /\ removes[c] = 0
       /\ pc[c] = "stop" => polls[c] = MaxPolls /\ removes[c] = 0
       /\ removes[c] \in {0, 1}
       /\ removes[c] = 1 => polls[c] = MaxPolls /\ pc[c] = "idle"
       /\ (pc[c] = "idle" /\ ret[c] \in {"forced", "failed"}) =>
             polls[c] = MaxPolls /\ removes[c] = 1

C3_Witness ==
    \E c \in Controllers :
       /\ pc[c] = "idle" /\ ret[c] = "failed"
       /\ polls[c] = MaxPolls /\ removes[c] = 1

\* C4: a run of the finaliser for an id that is in known_jobs issues one
\* Remove and leaves the id out of known_jobs; for an id that is not, it
\* issues nothing and leaves known_jobs as it is.
C4_FinalizerClaim ==
    [][ \A c \in Controllers :
          (finalizer[c] = "alive" /\ finalizer'[c] # "alive") =>
             IF job_id[c][1] \in known_jobs
               THEN /\ fin_removes'[c] = fin_removes[c] + 1
                    /\ job_id[c][1] \notin known_jobs'
               ELSE /\ fin_removes'[c] = fin_removes[c]
                    /\ known_jobs' = known_jobs
                    /\ queue' = queue ]_vars

\* C5 as stated: after a failed submission start() has set no job id, the
\* status is Failed, known_jobs has no entry of the controller and no
\* finaliser is registered.
C5_Original ==
    \A c \in Controllers :
       (pc[c] = "idle" /\ submit[c] \notin {"none", "ok"}) =>
          /\ job_id[c] = None
          /\ status[c] = "failed"
          /\ finalizer[c] = "none"
          /\ known_jobs \subseteq
                { job_id[d][1] : d \in { e \in Controllers : job_id[e] # None } }

\* C5 as amended: after a failed submission start() has set no job id, the
\* status is what it was before start() (created: never Running, and the
\* code has no Failed status to set), known_jobs has no entry of the
\* controller and no finaliser is registered.
C5_FailedSubmit ==
    \A c \in Controllers :
       (pc[c] = "idle" /\ submit[c] \notin {"none", "ok"}) =>
          /\ job_id[c] = None
          /\ status[c] = "created"
          /\ finalizer[c] = "none"
          /\ known_jobs \subseteq
                { job_id[d][1] : d \in { e \in Controllers : job_id[e] # None } }

C5_Witness ==
    \E c \in Controllers :
       pc[c] = "idle" /\ submit[c] = "queue_internal_error" /\ job_id[c] = None

\* C6: when close() returns after a forced Remove that did not report one
\* success and one changed ad, the id is still in known_jobs, the status is
\* not closed, the finished event is not set, and the finaliser is still to
\* run and will issue a Remove for the id.
C6_FailedForcedRemoval ==
    \A c \in Controllers :
       ( /\ pc[c] = "idle" /\ removes[c] = 1 /\ ~last_act[c].exc
         /\ ~(last_act[c].TotalSuccess = 1 /\ last_act[c].TotalChangedAds = 1) )
       => ( /\ ret[c] = "failed"
            /\ job_id[c][1] \in known_jobs
            /\ status[c] # "closed"
            /\ ~finished[c]
            /\ finalizer[c] = "alive"
            /\ ENABLED (Finalizer(c, TRUE) /\ fin_removes'[c] = fin_removes[c] + 1) )

C6_Witness ==
    \E c \in Controllers :
       /\ pc[c] = "idle" /\ ret[c] = "failed" /\ removes[c] = 1
       /\ job_id[c][1] \in known_jobs /\ job_id[c][1] \in queue

\* C7: no start(), close() or finaliser run ends by raising: a failure of a
\* scheduler call is caught where the call is made.
C7_NothingRaises ==
    \A c \in Controllers :
       ret[c] \notin {"start_raised", "close_raised"} /\ finalizer[c] # "raised"

\* C8: every id that enters known_jobs is eventually removed from it (the
\* collaborators' calls return and the finaliser runs at the latest at exit).
C8_EventuallyRemoved ==
    \A id \in ClusterIds : (id \in known_jobs) ~> (id \notin known_jobs)

C8_Witness ==
    \E c \in Controllers :
       /\ pc[c] = "dead" /\ finalizer[c] = "dead" /\ fin_removes[c] = 1
       /\ job_id[c][1] \notin known_jobs

\* C9: a construction that is given scheduler_options goes on with a merged
\* map: every key of the caller keeps the caller's value, and 'host' is the
\* generated hostname:port only when the caller gave none.
C9_CallerOptionsMerged ==
    (cluster_init.result \notin {"idle", "pending"} /\ cluster_init.has_options) =>
       /\ cluster_init.result \in {"ok", "RuntimeError"}
       /\ DOMAIN cluster_init.passed = DOMAIN cluster_init.options \cup {"host"}
       /\ \A k \in DOMAIN cluster_init.options :
             cluster_init.passed[k] = cluster_init.options[k]
       /\ "host" \notin DOMAIN cluster_init.options =>
             cluster_init.passed["host"] = << Hostname, ":", cluster_init.port >>

\* C10: with a log directory configured, the construction of a job fails
\* exactly when the directory is not a sub-path of the home directory (the
\* home directory itself, or a path below it).
C10_LogDirectoryValidated ==
    LET dir == job_init.log_directory
        home == job_init.homedir
        sub_path == dir = home \/ startswith(dir, home \o << "/" >>)
    IN  (job_init.result \notin {"idle", "pending"} /\ dir # << >>) =>
           (job_init.result = "ValueError" <=> ~sub_path)

\* C11: every construction picks a port in 10000..10100 and advertises
\* hostname:port (the host it hands to the base class is the generated
\* address), and it ends either normally or, when the bind failed, with the
\* RuntimeError that names the port; no other error ends it.
C11_PortAndBindError ==
    cluster_init.result \notin {"idle", "pending"} =>
       /\ cluster_init.port \in PortLo..PortHi
       /\ cluster_init.result \in {"ok", "RuntimeError"}
       /\ "host" \in DOMAIN cluster_init.passed
       /\ cluster_init.passed["host"] = << Hostname, ":", cluster_init.port >>

\* C12: a construction that completes writes, for the image name X it was
\* given, the reference /cvmfs/unpacked.cern.ch/registry.hub.docker.com/ + X
\* (as a quoted ClassAd string) under +SingularityImage, sets the other four
\* fixed entries, and keeps every other entry the header had, with its value.
C12_ContainerReference ==
    [][(job_init.result = "pending" /\ job_init'.result = "ok") =>
          LET base == job_init.header
              h == job_init'.header
              fixed == {"initialdir", "use_x509userproxy",
                        "when_to_transfer_output", "transfer_output_files",
                        "+SingularityImage"}
          IN  /\ job_init'.image = job_init.image
              /\ DOMAIN h = DOMAIN base \cup fixed
              /\ h["+SingularityImage"] =
                    << "\"", "/cvmfs/unpacked.cern.ch/registry.hub.docker.com/" >>
                       \o job_init.image \o << "\"" >>
              /\ h["initialdir"] = job_init.homedir
              /\ h["use_x509userproxy"] = << "true" >>
              /\ h["when_to_transfer_output"] = << "ON_EXIT_OR_EVICT" >>
              /\ h["transfer_output_files"] = << >>
              /\ \A k \in DOMAIN base \ fixed : h[k] = base[k]]_vars

C12_Witness ==
    /\ job_init.result = "ok"
    /\ job_init.image = << "a", "/", "b", ":", "tag" >>
    /\ "RequestCpus" \in DOMAIN job_init.header
    /\ job_init.header["RequestCpus"] = << "base" >>
    /\ job_init.header["+SingularityImage"] =
          << "\"", "/cvmfs/unpacked.cern.ch/registry.hub.docker.com/",
             "a", "/", "b", ":", "tag", "\"" >>

\* C13: during and after a close(), a controller with a live cluster binding
\* has issued exactly one retire-workers request, and no sleep or poll
\* happens while that request is in flight; a controller without a binding
\* has issued none and never waits for one; and every poll made so far came
\* after a sleep of its own.
C13_RetireBeforePolls ==
    \A c \in Controllers :
       (pc[c] \in {"retire", "loop", "stop"}
           \/ (pc[c] = "idle" /\ ret[c] \in CloseEnded)) =>
          /\ cluster[c] => retires[c] = 1
          /\ ~cluster[c] => (retires[c] = 0 /\ pc[c] # "retire")
          /\ pc[c] = "retire" => (sleeps[c] = 0 /\ polls[c] = 0)
          /\ sleeps[c] = polls[c]

C13_Witness ==
    \E c \in Controllers :
       /\ pc[c] = "loop" /\ cluster[c]
       /\ retires[c] = 1 /\ sleeps[c] = 2 /\ polls[c] = 2

\* C14: a controller becomes Closed, and its finished event becomes set,
\* only in a step that confirms termination: a poll answered with zero rows,
\* or a Remove answered with one success and one changed record.  After
\* every step, the event is set exactly when the status is Closed, and a
\* Closed controller's job id is not in the registry.
C14_ClosedOnlyWhenConfirmed ==
    [][\A c \in Controllers :
          /\ (status'[c] = "closed" /\ status[c] # "closed")
               \/ (finished'[c] /\ ~finished[c]) =>
                  \/ /\ pc[c] = "loop" /\ ret'[c] = "graceful"
                     /\ QueryRows(job_id[c]) = 0
                     /\ removes'[c] = 0
                  \/ /\ pc[c] = "stop" /\ ret'[c] = "forced"
                     /\ last_act'[c] = [exc |-> FALSE, TotalSuccess |-> 1,
                                        TotalChangedAds |-> 1]
          /\ finished'[c] <=> status'[c] = "closed"
          /\ status'[c] = "closed" =>
                (job_id'[c] # None => job_id'[c][1] \notin known_jobs')]_vars

C14_Witness ==
    \E c \in Controllers :
       /\ pc[c] = "idle" /\ ret[c] = "forced"
       /\ status[c] = "closed" /\ finished[c]
       /\ job_id[c] # None /\ job_id[c][1] \notin known_jobs
       /\ job_id[c][1] \notin queue

\* C15: with several controllers started, closed and finalised in any
\* order, their job ids are distinct and the registry is exactly the set of
\* ids that were submitted successfully and that neither a confirmed close
\* nor the finaliser of the same controller has discarded.
C15_RegistryIsExact ==
    LET submitted == { c \in DOMAIN pc : job_id[c] # None }
        kept == { c \in submitted :
                    status[c] # "closed" /\ finalizer[c] # "dead" }
    IN  /\ \A c, d \in submitted : job_id[c] = job_id[d] => c = d
        /\ known_jobs = { job_id[c][1] : c \in kept }

C15_Witness ==
    \E c, d \in DOMAIN pc :
       /\ c # d /\ job_id[c] # None /\ job_id[d] # None
       /\ status[c] = "closed" /\ job_id[c][1] \notin known_jobs
       /\ pc[d] = "loop" /\ polls[d] = 1 /\ job_id[d][1] \in known_jobs

C17_AllOrNothing ==
    /\ \A c \in Controllers :
          (pc[c] = "idle" /\ ret[c] \in {"start_none", "start_raised"}) =>
             ~Committed(submit[c])
    /\ \A id \in queue : \E c \in Controllers : job_id[c] = Some(id)

\* C18: when close() returns for a job that has left the batch queue,
\* the status is Closed, the finished event is set and the id is out of the
\* registry; this covers a job that left the queue after the 30th poll,
\* before the Remove.  (Stated for a job that was gone before the step that
\* ends close(), so the step's own Remove plays no part.)
C18_GoneMeansClosed ==
    [][\A c \in Controllers :
          (/\ pc[c] \in {"loop", "stop"}
           /\ pc'[c] = "idle" /\ ret'[c] \in {"graceful", "forced", "failed"}
           /\ job_id[c] # None
           /\ job_id[c][1] \notin queue /\ job_id[c][1] \notin queue') =>
             /\ status'[c] = "closed"
             /\ finished'[c]
             /\ job_id[c][1] \notin known_jobs']_vars

\* C19: once a controller is Closed and its job is gone from the queue, no
\* step of a further close() changes that: the status stays Closed, the
\* event stays set, the registry stays as it is, no Remove is issued, and
\* the close() ends at its first poll.
C19_CloseIdempotent ==
    [][\A c \in Controllers :
          (/\ status[c] = "closed"
           /\ job_id[c] # None => job_id[c][1] \notin queue
           /\ << pc[c], ret[c], polls[c] >> # << pc'[c], ret'[c], polls'[c] >>) =>
             /\ status'[c] = "closed"
             /\ finished'[c]
             /\ known_jobs' = known_jobs
             /\ removes'[c] <= removes[c] /\ fin_removes'[c] = fin_removes[c]
             /\ pc'[c] # "stop"
             /\ pc[c] = "loop" => pc'[c] \in {"idle", "dead"}]_vars

C19_Witness ==
    \E c \in Controllers :
       /\ pc[c] = "loop" /\ polls[c] = 0 /\ cluster[c] /\ retires[c] = 1
       /\ status[c] = "closed" /\ finished[c]
       /\ job_id[c] # None
       /\ job_id[c][1] \notin known_jobs /\ job_id[c][1] \notin queue
=============================================================================
